---------------------------- MODULE Spec2Model ----------------------------
(***************************************************************************)
(* Model of the binance_data_collection pipeline:                          *)
(*   - utils.RateLimiter (rolling one-minute throttle, a decorator),       *)
(*   - DataManager._api_call (retry with exponential backoff),             *)
(*   - DataManager.get_tradeable_symbols (symbol discovery),               *)
(*   - DataManager.get_historical_data (memory / disk cache, incremental   *)
(*     and full fetch, merge),                                             *)
(*   - utils.validate_data,                                                *)
(*   - storage.DataStorage (store with backup, load, needs_update).        *)
(* Time is counted in whole seconds for the limiter and the storage and in *)
(* whole days for the candle cache.  The program is single-threaded, so     *)
(* every handler is one atomic action.                                     *)
(***************************************************************************)
EXTENDS Integers, Sequences, FiniteSets, TLC

VARIABLES
    \* ---- RateLimiter (utils.py) and the clock it reads
    clock,              \* datetime.now(), in seconds
    calls_per_minute,   \* RateLimiter.calls_per_minute
    call_times,         \* RateLimiter.call_times (deque, oldest first)
    performed,          \* history: times at which the wrapped call was started (last N+1)
    ncalls,             \* history: number of wrapped calls made so far
    last,               \* history: what the most recent wrapped call did
    \* ---- retry wrapper applied to a supplied operation
    rt_outcomes,        \* what each attempt of the supplied operation would yield
    rt_result,          \* what _api_call did with it
    \* ---- symbol discovery
    max_symbols,        \* config.MAX_SYMBOLS as configured
    sym_pc,             \* "idle" | "done"
    exch_info,          \* metadata snapshot the exchange served
    exch_tickers,       \* ticker snapshot the exchange served
    sym_fetch,          \* how the two fetches went
    sym_result,         \* value returned by get_tradeable_symbols
    \* ---- historical data
    today,              \* datetime.now(), in days
    cache,              \* DataManager.cache
    disk,               \* CACHE_DIR/<symbol>.parquet
    backups,            \* files under BACKUP_DIR
    hist,               \* history: what the most recent get_historical_data did
    \* ---- the merge of a cached series with fetched rows
    mg_df,              \* the series loaded from the cache file
    mg_new,             \* the rows of the incremental fetch
    mg_out,             \* the merged series ("pending" until merged)
    \* ---- validate_data applied to a frame
    vd_df,              \* the frame passed in, or None
    vd_out,             \* what validate_data did with it
    \* ---- DataStorage (storage.py), its directories and the clock it reads
    st_now,             \* time.time() / datetime.now(), in seconds
    st_attrs,           \* whether the parquet library in use persists DataFrame.attrs
    st_posix,           \* whether Path.rename replaces an existing target
    st_file,            \* root_dir/<symbol>_v<version>.parquet
    st_backups,         \* backup_dir: backup name -> file
    st_written,         \* history: the files written by successful store calls
    st_fails,           \* history: number of store calls that returned False
    st_ncalls,          \* history: number of DataStorage calls made so far
    st_last             \* history: what the most recent DataStorage call did

limVars  == <<clock, calls_per_minute, call_times, performed, ncalls, last>>
rtVars   == <<rt_outcomes, rt_result>>
symVars  == <<max_symbols, sym_pc, exch_info, exch_tickers, sym_fetch, sym_result>>
histVars == <<today, cache, disk, backups, hist>>
mgVars   == <<mg_df, mg_new, mg_out>>
vdVars   == <<vd_df, vd_out>>
stVars   == <<st_now, st_attrs, st_posix, st_file, st_backups, st_written,
              st_fails, st_ncalls, st_last>>
vars     == <<limVars, rtVars, symVars, histVars, mgVars, vdVars, stVars>>

-----------------------------------------------------------------------------
(* Bounds of the model *)
MaxCeiling == 2       \* largest calls_per_minute tried
MaxClock   == 75     \* the clock stops advancing here
MaxCalls   == 4       \* wrapped calls made in one run
MaxValue   == 2       \* distinct values / errors an attempt can yield

(* Program constants *)
Window      == 60     \* timedelta(minutes=1), in seconds
max_retries == 3

Max(a, b) == IF a >= b THEN a ELSE b
Min(a, b) == IF a <= b THEN a ELSE b

RECURSIVE SumSeq(_)
SumSeq(s) == IF s = <<>> THEN 0 ELSE Head(s) + SumSeq(Tail(s))

LastN(s, n) == IF Len(s) <= n THEN s ELSE SubSeq(s, Len(s) - n + 1, Len(s))

-----------------------------------------------------------------------------
(* DataManager._api_call: the retry loop.                                   *)
(* outcomes[i] is what the i-th invocation of the supplied operation does:  *)
(* [ok |-> TRUE, v |-> value returned] or [ok |-> FALSE, v |-> error].      *)

Outcome     == [ok : BOOLEAN, v : 1..MaxValue]
OutcomeSeqs == [1..max_retries -> Outcome]

\* a backoff that grows linearly
BackoffLinear(attempt) == 2 * attempt + 1

\* 2 ** attempt
Backoff(attempt) == 2 ^ attempt

RECURSIVE ApiAttempt(_, _, _)
ApiAttempt(outcomes, attempt, sleeps) ==
    LET o == outcomes[attempt + 1] IN
    IF o.ok
      THEN [raised |-> FALSE, v |-> o.v, attempts |-> attempt + 1, sleeps |-> sleeps]
      ELSE IF attempt = max_retries - 1
             THEN [raised |-> TRUE, v |-> o.v, attempts |-> attempt + 1, sleeps |-> sleeps]
             ELSE ApiAttempt(outcomes, attempt + 1, Append(sleeps, Backoff(attempt)))

ApiCallBody(outcomes) == ApiAttempt(outcomes, 0, <<>>)

NoResult == [raised |-> FALSE, v |-> 0, attempts |-> 0, sleeps |-> <<>>]

\* an operation whose first k invocations fail and whose later ones succeed
FailsThenOk(k) == [i \in 1..max_retries |-> [ok |-> i > k, v |-> 1]]

-----------------------------------------------------------------------------
(* utils.RateLimiter *)

RECURSIVE Prune(_, _)
Prune(ct, now) ==
    IF ct # <<>> /\ now - Head(ct) > Window THEN Prune(Tail(ct), now) ELSE ct

\* a limiter that never sleeps
WaitTimeNever(ct, now, n) == 0

WaitTime(ct, now, n) ==
    IF Len(ct) >= n THEN Max(Head(ct) + Window - now, 0) ELSE 0

\* deque(maxlen = n).append
DequeAppend(ct, x, n) ==
    IF Len(ct) >= n THEN Append(Tail(ct), x) ELSE Append(ct, x)

\* a wrapper that records the call whether it returned or raised
RecordAlways(ct, now, n, raised) == DequeAppend(ct, now, n)

\* result = func(...); self.call_times.append(now): skipped when func raises
RecordCall(ct, now, n, raised) ==
    IF raised THEN ct ELSE DequeAppend(ct, now, n)

NoCall == [now |-> 0, wait |-> 0, start |-> 0, raised |-> FALSE,
           attempts |-> 0, checks |-> 0, recorded |-> 0]

\* wrapper(*args): one call of the decorated _api_call
Wrapper(outcomes) ==
    LET now    == clock
        pruned == Prune(call_times, now)
        wait   == WaitTime(pruned, now, calls_per_minute)
        start  == now + wait
        r      == ApiCallBody(outcomes)
        finish == start + SumSeq(r.sleeps)
    IN  /\ finish <= MaxClock
        /\ ncalls < MaxCalls
        /\ ncalls' = ncalls + 1
        /\ clock' = finish
        /\ call_times' = RecordCall(pruned, now, calls_per_minute, r.raised)
        /\ performed' = LastN(Append(performed, start), calls_per_minute + 1)
        /\ last' = [now |-> now, wait |-> wait, start |-> start,
                    raised |-> r.raised, attempts |-> r.attempts, checks |-> 1,
                    recorded |-> IF r.raised THEN 0 ELSE 1]
        /\ UNCHANGED calls_per_minute

TickSteps == {10, 61}

Tick(d) ==
    /\ clock + d <= MaxClock
    /\ clock' = clock + d
    /\ UNCHANGED <<calls_per_minute, call_times, performed, ncalls, last>>

-----------------------------------------------------------------------------
(* DataManager.get_tradeable_symbols                                        *)
(* A symbol name is a string, written as the sequence of its code points.   *)

MaxCfgSymbols == 2    \* largest config.MAX_SYMBOLS tried

MIN_VOLUME == 1000000

Names    == {<<1>>, <<1, 2>>, <<2>>}
Statuses == {"TRADING", "BREAK"}
Assets   == {"USDT", "BTC"}
\* quoteVolume as the exchange sends it: a decimal string ("" stands for one that
\* float() rejects)
VolumeStrings == {"999999.99", "1000000.00", ""}

QUOTE_CURRENCY == "USDT"

\* float(s), in hundredths
Float(s) ==
    CASE s = "999999.99"  -> [ok |-> TRUE,  x |-> 99999999]
      [] s = "1000000.00" -> [ok |-> TRUE,  x |-> 100000000]
      [] OTHER            -> [ok |-> FALSE, x |-> 0]

\* str.__lt__: comparison by code points, a proper prefix first
RECURSIVE StrLess(_, _)
StrLess(a, b) ==
    IF a = <<>> THEN b # <<>>
    ELSE IF b = <<>> THEN FALSE
    ELSE IF Head(a) # Head(b) THEN Head(a) < Head(b)
    ELSE StrLess(Tail(a), Tail(b))

RECURSIVE InsertSorted(_, _)
InsertSorted(x, s) ==
    IF s = <<>> THEN <<x>>
    ELSE IF StrLess(x, Head(s)) THEN <<x>> \o s
    ELSE <<Head(s)>> \o InsertSorted(x, Tail(s))

\* a list left in the order of the metadata snapshot
Unsorted(s) == s

\* sorted(s)
RECURSIVE SortedList(_)
SortedList(s) ==
    IF s = <<>> THEN <<>>
    ELSE InsertSorted(s[Len(s)], SortedList(SubSeq(s, 1, Len(s) - 1)))

\* s[:n]
Prefix(s, n) == SubSeq(s, 1, Min(Len(s), n))

\* {t['symbol']: t for t in tickers}: a later entry replaces an earlier one
RECURSIVE TickerLookup(_)
TickerLookup(tickers) ==
    IF tickers = <<>> THEN <<>>
    ELSE LET t    == tickers[Len(tickers)]
             rest == TickerLookup(SubSeq(tickers, 1, Len(tickers) - 1))
         IN  [k \in DOMAIN rest \cup {t.symbol} |->
                 IF k = t.symbol THEN t ELSE rest[k]]

PassesVolume(x) == x >= MIN_VOLUME * 100

\* the loop over info['symbols']; exc is set when float() raises
RECURSIVE FilterSymbols(_, _, _)
FilterSymbols(symbols, ticker_data, valid_symbols) ==
    IF symbols = <<>> THEN [exc |-> FALSE, valid |-> valid_symbols]
    ELSE LET symbol == Head(symbols) IN
         IF /\ symbol.status = "TRADING"
            /\ symbol.quoteAsset = "USDT"
            /\ symbol.symbol \in DOMAIN ticker_data
           THEN LET volume == Float(ticker_data[symbol.symbol].quoteVolume) IN
                IF ~volume.ok THEN [exc |-> TRUE, valid |-> valid_symbols]
                ELSE IF PassesVolume(volume.x)
                       THEN FilterSymbols(Tail(symbols), ticker_data,
                                          Append(valid_symbols, symbol.symbol))
                       ELSE FilterSymbols(Tail(symbols), ticker_data, valid_symbols)
           ELSE FilterSymbols(Tail(symbols), ticker_data, valid_symbols)

\* a body without the try / except: the exception reaches the caller
OnSymbolsErrorReraise(partial) == [raised |-> TRUE, list |-> <<>>]

\* the except clause: log and return []
OnSymbolsError(partial) == [raised |-> FALSE, list |-> <<>>]

\* the body of get_tradeable_symbols; infoCall and tickCall are what _api_call
\* did for the two fetches
SymbolsBody(infoCall, tickCall, info, tickers, limit) ==
    IF infoCall.raised THEN OnSymbolsError(<<>>)
    ELSE IF tickCall.raised THEN OnSymbolsError(<<>>)
    ELSE LET f == FilterSymbols(info, TickerLookup(tickers), <<>>) IN
         IF f.exc THEN OnSymbolsError(Prefix(SortedList(f.valid), limit))
         ELSE [raised |-> FALSE, list |-> Prefix(SortedList(f.valid), limit)]

\* metadata snapshots: up to three entries, one per symbol, in any order
InfoEntry     == [symbol : Names, status : Statuses, quoteAsset : Assets]
InfoSnapshots ==
    {i \in UNION {[1..n -> InfoEntry] : n \in 0..Cardinality(Names)} :
        \A a, b \in DOMAIN i : a # b => i[a].symbol # i[b].symbol}

\* ticker snapshots: the entries of a set of symbols, in ascending order
RECURSIVE TickerSeq(_, _)
TickerSeq(names, vol) ==
    IF names = <<>> THEN <<>>
    ELSE IF vol[Head(names)] = "none" THEN TickerSeq(Tail(names), vol)
    ELSE <<[symbol |-> Head(names), quoteVolume |-> vol[Head(names)]]>>
            \o TickerSeq(Tail(names), vol)

TickerSnapshots ==
    {TickerSeq(<<  <<1>>, <<1, 2>>, <<2>>  >>, vol) :
        vol \in [Names -> VolumeStrings \cup {"none"}]}

GetTradeableSymbols ==
    /\ sym_pc = "idle"
    /\ \E ki, kt \in 0..max_retries :
         LET infoCall == ApiCallBody(FailsThenOk(ki))
             tickCall == ApiCallBody(FailsThenOk(kt))
         IN  \E info \in (IF infoCall.raised THEN {<<>>} ELSE InfoSnapshots) :
             \E tickers \in (IF infoCall.raised \/ tickCall.raised
                               THEN {<<>>} ELSE TickerSnapshots) :
               /\ exch_info' = info
               /\ exch_tickers' = tickers
               /\ sym_fetch' = [info_failed |-> infoCall.raised,
                                tick_failed |-> ~infoCall.raised /\ tickCall.raised]
               /\ sym_result' = SymbolsBody(infoCall, tickCall, info, tickers,
                                             max_symbols)
    /\ sym_pc' = "done"
    /\ UNCHANGED <<max_symbols, limVars, rtVars, histVars, mgVars, vdVars, stVars>>

\* the caller took the list; the next scheduled run starts
NextRun ==
    /\ sym_pc = "done"
    /\ sym_pc' = "idle"
    /\ exch_info' = <<>>
    /\ exch_tickers' = <<>>
    /\ sym_fetch' = <<>>
    /\ sym_result' = <<>>
    /\ UNCHANGED <<max_symbols, limVars, rtVars, histVars, mgVars, vdVars, stVars>>

-----------------------------------------------------------------------------
(* DataManager.get_historical_data                                          *)
(* A series is a sequence of rows [ts, v]: ts the candle's day (the index), *)
(* v its contents.                                                          *)

MaxDay == 3           \* last day of the run, and latest candle

HistSymbols == {"ABCUSDT"}

Absent == [present |-> FALSE, rows |-> <<>>]
Series(rows) == [present |-> TRUE, rows |-> rows]

NoFile == [kind |-> "none", rows |-> <<>>]      \* cache_file.exists() is false
File(rows) == [kind |-> "ok", rows |-> rows]
BadFile == [kind |-> "bad", rows |-> <<>>]      \* a file read_parquet rejects

\* the series the exchange serves: ascending in time, one candle per day
Ascending(days, values) ==
    {r \in UNION {[1..n -> [ts : 1..days, v : values]] : n \in 0..days} :
        \A i \in 1..(Len(r) - 1) : r[i].ts < r[i + 1].ts}

\* what get_historical_klines does when called: failed_first says that the call
\* raises and that calling again would return rows
KlineResponses(days) == [failed_first : BOOLEAN, rows : Ascending(days, {1})]

\* df[~df.index.duplicated(keep='first')]
DropDuplicatesKeepFirst(df) ==
    LET keep == {i \in DOMAIN df : \A j \in DOMAIN df : j < i => df[j].ts # df[i].ts}
        F[i \in 0..Len(df)] ==
            IF i = 0 THEN <<>>
            ELSE IF i \in keep THEN Append(F[i - 1], df[i]) ELSE F[i - 1]
    IN  F[Len(df)]

\* df[~df.index.duplicated(keep='last')]
DropDuplicatesKeepLast(df) ==
    LET keep == {i \in DOMAIN df : \A j \in DOMAIN df : j > i => df[j].ts # df[i].ts}
        F[i \in 0..Len(df)] ==
            IF i = 0 THEN <<>>
            ELSE IF i \in keep THEN Append(F[i - 1], df[i]) ELSE F[i - 1]
    IN  F[Len(df)]

\* df.sort_index(): rows of equal index keep their order
RECURSIVE InsertRow(_, _)
InsertRow(x, s) ==
    IF s = <<>> THEN <<x>>
    ELSE IF x.ts < Head(s).ts THEN <<x>> \o s
    ELSE <<Head(s)>> \o InsertRow(x, Tail(s))

RECURSIVE SortIndex(_)
SortIndex(df) ==
    IF df = <<>> THEN <<>>
    ELSE InsertRow(df[Len(df)], SortIndex(SubSeq(df, 1, Len(df) - 1)))

\* pd.concat([df, new_data]), drop duplicates, sort
Merge(df, new_data) == SortIndex(DropDuplicatesKeepLast(df \o new_data))

\* _fetch_full_history / _fetch_missing_data: one direct call of
\* client.get_historical_klines; None on an exception or on no rows
FetchKlines(resp) ==
    IF resp.failed_first THEN Absent
    ELSE IF resp.rows = <<>> THEN Absent
    ELSE Series(resp.rows)

KlineCall(kind, resp) ==
    [kind |-> kind, limited |-> FALSE, attempts |-> 1,
     failed_first |-> resp.failed_first, rows |-> resp.rows]

\* a disk cache that is never treated as fresh
NeverFresh(now, last_date) == FALSE

\* datetime.now() - last_date < timedelta(days=1)
IsFresh(now, last_date) == now - last_date < 1

\* a memory cache that is never hit
NeverInMemory(c, symbol) == FALSE

\* symbol in self.cache
InMemory(c, symbol) == symbol \in DOMAIN c

WriteOutcomes == {"ok", "fail", "fail_torn"}

\* df.to_parquet(cache_file): the file afterwards
AfterWrite(file, rows, write) ==
    CASE write = "ok"        -> File(rows)
      [] write = "fail"      -> file
      [] write = "fail_torn" -> BadFile

Done(symbol, path, raised, result, prev, calls) ==
    hist' = [symbol |-> symbol, path |-> path, raised |-> raised,
             result |-> result, prev |-> prev, calls |-> calls]

\* lines 94-100: fetch full history
FullHistory(symbol, prev, before) ==
    \E full \in KlineResponses(today) :
        LET df    == FetchKlines(full)
            calls == Append(before, KlineCall("full", full))
        IN  IF df.present
              THEN \E write \in WriteOutcomes :
                     /\ disk' = [disk EXCEPT ![symbol] = AfterWrite(prev, df.rows, write)]
                     /\ IF write = "ok"
                          THEN /\ cache' = [k \in DOMAIN cache \cup {symbol} |->
                                              IF k = symbol THEN df.rows ELSE cache[k]]
                               /\ Done(symbol, "full", FALSE, df, prev, calls)
                          ELSE /\ UNCHANGED cache
                               /\ Done(symbol, "full", TRUE, Absent, prev, calls)
              ELSE /\ UNCHANGED <<cache, disk>>
                   /\ Done(symbol, "full", FALSE, Absent, prev, calls)

GetHistoricalData(symbol) ==
    LET prev == disk[symbol] IN
    /\ IF InMemory(cache, symbol)
         THEN \* memory cache
              /\ Done(symbol, "memory", FALSE, Series(cache[symbol]), prev, <<>>)
              /\ UNCHANGED <<cache, disk>>
         ELSE IF prev.kind = "none"
         THEN FullHistory(symbol, prev, <<>>)
         ELSE IF prev.kind = "bad" \/ prev.rows = <<>>
         THEN \* read_parquet or df.index[-1] raises
              /\ Done(symbol, "disk", TRUE, Absent, prev, <<>>)
              /\ UNCHANGED <<cache, disk>>
         ELSE LET df        == prev.rows
                  last_date == df[Len(df)].ts
              IN  IF IsFresh(today, last_date)
                    THEN /\ cache' = [k \in DOMAIN cache \cup {symbol} |->
                                        IF k = symbol THEN df ELSE cache[k]]
                         /\ UNCHANGED disk
                         /\ Done(symbol, "fresh", FALSE, Series(df), prev, <<>>)
                    ELSE \E inc \in KlineResponses(today) :
                           LET new_data == FetchKlines(inc)
                               calls    == <<KlineCall("inc", inc)>>
                           IN  IF new_data.present
                                 THEN LET merged == Merge(df, new_data.rows) IN
                                      \E write \in WriteOutcomes :
                                        /\ disk' = [disk EXCEPT ![symbol] =
                                                      AfterWrite(prev, merged, write)]
                                        /\ IF write = "ok"
                                             THEN /\ cache' = [k \in DOMAIN cache \cup {symbol} |->
                                                                 IF k = symbol THEN merged ELSE cache[k]]
                                                  /\ Done(symbol, "merged", FALSE,
                                                          Series(merged), prev, calls)
                                             ELSE /\ UNCHANGED cache
                                                  /\ Done(symbol, "merged", TRUE,
                                                          Absent, prev, calls)
                                 ELSE FullHistory(symbol, prev, calls)
    /\ UNCHANGED <<today, backups>>

-----------------------------------------------------------------------------
(* utils.validate_data                                                      *)
(* A frame is its number of rows and, for every column, the rows whose cell *)
(* is null.                                                                 *)

MaxRows == 361    \* longest frame tried

DAYS_REQUIRED == 360

\* the columns of a kline frame (the timestamp is its index)
Columns == {"open", "high", "low", "close", "volume", "close_time",
            "quote_volume", "trades", "taker_buy_volume",
            "taker_buy_quote_volume", "ignored"}

NoFrame == [present |-> FALSE, nrows |-> 0, nulls |-> [c \in Columns |-> {}]]

Frame(n, nulls) == [present |-> TRUE, nrows |-> n, nulls |-> nulls]

\* frames without a null cell and frames with one null cell, in the first or
\* the last row of some column
Frames ==
    {Frame(n, [c \in Columns |-> {}]) : n \in 0..MaxRows}
    \cup {Frame(t[1], [c \in Columns |->
                         IF c = t[2] THEN {IF t[3] THEN 1 ELSE t[1]} ELSE {}]) :
            t \in (1..MaxRows) \X Columns \X BOOLEAN}

\* df.isnull().any().any(): any null in a column, then any column with one
IsNullAnyAny(df) == \E c \in Columns : df.nulls[c] # {}

\* a validation that asks for more rows than the required number
ValidateMoreThanRequired(df) ==
    df.present /\ df.nrows > DAYS_REQUIRED /\ ~IsNullAnyAny(df)

\* df is not None and len(df) >= config.DAYS_REQUIRED and not df.isnull().any().any()
ValidateBody(df) ==
    df.present /\ df.nrows >= DAYS_REQUIRED /\ ~IsNullAnyAny(df)

NoValidation == [called |-> FALSE, raised |-> FALSE, value |-> FALSE]

-----------------------------------------------------------------------------
(* storage.DataStorage                                                      *)
(* A stored frame is named by a number; a file holds a frame and, when the  *)
(* parquet library persists DataFrame.attrs, the time it was written.       *)
(* Whether attrs survive to_parquet / read_parquet depends on the pandas    *)
(* and engine version installed (the repository pins none), so it is a      *)
(* property of the build, fixed for a behaviour.  Path.rename onto an       *)
(* existing target replaces it on POSIX and raises on Windows.              *)

MaxStoreCalls == 3        \* DataStorage calls in a behaviour

OneDay == 86400           \* pd.Timedelta(days=1), in seconds

StSymbols == {"ABCUSDT"}

AttrsModes == {"kept", "dropped"}

NoTimestamp == -1

NoArtifact == [kind |-> "none", df |-> 0, timestamp |-> NoTimestamp]

Artifact(df, timestamp) == [kind |-> "file", df |-> df, timestamp |-> timestamp]

\* backup_name: f"{symbol}_v{version}_{int(time.time())}.parquet"
BackupName(symbol, now) == <<symbol, now>>

\* filepath.rename(backup_dir / backup_name)
Rename(dir, name, file, posix) ==
    IF name \in DOMAIN dir /\ ~posix
      THEN [ok |-> FALSE, dir |-> dir]
      ELSE [ok |-> TRUE,
            dir |-> [n \in DOMAIN dir \cup {name} |-> IF n = name THEN file ELSE dir[n]]]

\* df.attrs['timestamp'] as read_parquet gives it back
WrittenTimestamp(mode, now) == IF mode = "kept" THEN now ELSE NoTimestamp

\* what can go wrong in a store call: nothing, the rename, or to_parquet
StoreFaults == {"none", "rename", "write"}

\* DataStorage.load
Load(file, read_fails) ==
    IF file.kind = "none" THEN [present |-> FALSE, df |-> 0, timestamp |-> NoTimestamp]
    ELSE IF read_fails THEN [present |-> FALSE, df |-> 0, timestamp |-> NoTimestamp]
    ELSE [present |-> TRUE, df |-> file.df, timestamp |-> file.timestamp]

\* DataStorage.needs_update, on what load returned
NeedsUpdateBody(loaded, now) ==
    IF ~loaded.present THEN TRUE
    ELSE IF loaded.timestamp = NoTimestamp THEN TRUE
    ELSE now - loaded.timestamp > OneDay

NoStorageCall == [op |-> "none", symbol |-> "", ok |-> FALSE, value |-> FALSE,
                  at |-> 0, before |-> NoArtifact, read_failed |-> FALSE,
                  loaded |-> Load(NoArtifact, FALSE)]

StCalled(op, symbol, ok, value, before, read_failed, loaded) ==
    /\ st_ncalls < MaxStoreCalls
    /\ st_ncalls' = st_ncalls + 1
    /\ st_last' = [op |-> op, symbol |-> symbol, ok |-> ok, value |-> value,
                   at |-> st_now, before |-> before, read_failed |-> read_failed,
                   loaded |-> loaded]

\* DataStorage.store
Store(symbol, df, fault) ==
    LET before == st_file[symbol]
        exists == before.kind = "file"
        name   == BackupName(symbol, st_now)
        moved  == IF exists THEN Rename(st_backups, name, before, st_posix)
                  ELSE [ok |-> TRUE, dir |-> st_backups]
        new    == Artifact(df, WrittenTimestamp(st_attrs, st_now))
    IN  /\ fault = "rename" => exists
        /\ IF fault = "rename" \/ ~moved.ok
             THEN \* the rename raised: nothing was moved, nothing was written
                  /\ UNCHANGED <<st_file, st_backups, st_written>>
                  /\ st_fails' = st_fails + 1
                  /\ StCalled("store", symbol, FALSE, FALSE, before, FALSE,
                              Load(NoArtifact, FALSE))
             ELSE IF fault = "write"
             THEN \* to_parquet raised after the rename
                  /\ st_backups' = moved.dir
                  /\ st_file' = [st_file EXCEPT ![symbol] = NoArtifact]
                  /\ UNCHANGED st_written
                  /\ st_fails' = st_fails + 1
                  /\ StCalled("store", symbol, FALSE, FALSE, before, FALSE,
                              Load(NoArtifact, FALSE))
             ELSE /\ st_backups' = moved.dir
                  /\ st_file' = [st_file EXCEPT ![symbol] = new]
                  /\ st_written' = Append(st_written, new)
                  /\ UNCHANGED st_fails
                  /\ StCalled("store", symbol, TRUE, TRUE, before, FALSE,
                              Load(NoArtifact, FALSE))
        /\ UNCHANGED <<st_now, st_attrs, st_posix>>

\* DataStorage.load, as a call
LoadCall(symbol, read_fails) ==
    LET loaded == Load(st_file[symbol], read_fails) IN
    /\ read_fails => st_file[symbol].kind = "file"
    /\ StCalled("load", symbol, loaded.present, loaded.present, st_file[symbol],
                read_fails, loaded)
    /\ UNCHANGED <<st_now, st_attrs, st_posix, st_file, st_backups, st_written, st_fails>>

\* DataStorage.needs_update, as a call
NeedsUpdate(symbol, read_fails) ==
    LET loaded == Load(st_file[symbol], read_fails) IN
    /\ read_fails => st_file[symbol].kind = "file"
    /\ StCalled("needs_update", symbol, TRUE, NeedsUpdateBody(loaded, st_now),
                st_file[symbol], read_fails, loaded)
    /\ UNCHANGED <<st_now, st_attrs, st_posix, st_file, st_backups, st_written, st_fails>>

\* the instants at which DataStorage is called: within the same second, a
\* second later, exactly one day later, and more than one day later
StTimes == {0, 1, OneDay, OneDay + 1}

StTick(t) ==
    /\ t > st_now
    /\ st_now' = t
    /\ UNCHANGED <<st_attrs, st_posix, st_file, st_backups, st_written, st_fails,
                   st_ncalls, st_last>>

-----------------------------------------------------------------------------
(* Values the variables of a component hold while another one is checked *)
LimIdle  == /\ clock = 0 /\ calls_per_minute = 1 /\ call_times = <<>>
            /\ performed = <<>> /\ ncalls = 0 /\ last = NoCall
RtIdle   == /\ rt_outcomes = <<>> /\ rt_result = NoResult
SymIdle  == /\ max_symbols = 1 /\ sym_pc = "idle" /\ exch_info = <<>>
            /\ exch_tickers = <<>> /\ sym_fetch = <<>> /\ sym_result = <<>>
HistIdle == /\ today = 1 /\ cache = <<>> /\ disk = <<>> /\ backups = {}
            /\ hist = <<>>
MgIdle   == /\ mg_df = <<>> /\ mg_new = <<>> /\ mg_out = Absent
VdIdle   == /\ vd_df = NoFrame /\ vd_out = NoValidation
StIdle   == /\ st_now = 0 /\ st_attrs = "kept" /\ st_posix = TRUE
            /\ st_file = <<>> /\ st_backups = <<>> /\ st_written = <<>>
            /\ st_fails = 0 /\ st_ncalls = 0 /\ st_last = NoStorageCall

-----------------------------------------------------------------------------
(* The limiter wrapping _api_call, with time passing between calls *)
InitLimiter ==
    /\ clock = 0
    /\ calls_per_minute \in 1..MaxCeiling
    /\ call_times = <<>>
    /\ performed = <<>>
    /\ ncalls = 0
    /\ last = NoCall
    /\ RtIdle /\ SymIdle /\ HistIdle /\ MgIdle /\ VdIdle /\ StIdle

RateLimitedCall ==
    /\ \E outcomes \in {o \in OutcomeSeqs : \A i \in 1..max_retries : o[i].v = 1} :
           Wrapper(outcomes)
    /\ UNCHANGED <<rtVars, symVars, histVars, mgVars, vdVars, stVars>>

TimePasses ==
    /\ \E d \in TickSteps : Tick(d)
    /\ UNCHANGED <<rtVars, symVars, histVars, mgVars, vdVars, stVars>>

NextLimiter == RateLimitedCall \/ TimePasses

SpecLimiter == InitLimiter /\ [][NextLimiter]_vars

-----------------------------------------------------------------------------
(* The retry wrapper alone, applied to every short sequence of outcomes *)
InitRetry ==
    /\ rt_outcomes \in OutcomeSeqs
    /\ rt_result = NoResult
    /\ LimIdle /\ SymIdle /\ HistIdle /\ MgIdle /\ VdIdle /\ StIdle

ApiCall ==
    /\ rt_result = NoResult
    /\ rt_result' = ApiCallBody(rt_outcomes)
    /\ UNCHANGED <<rt_outcomes, limVars, symVars, histVars, mgVars, vdVars, stVars>>

NextRetry == ApiCall

SpecRetry == InitRetry /\ [][NextRetry]_vars

-----------------------------------------------------------------------------
(* Symbol discovery, over every small pair of snapshots *)
InitSymbols ==
    /\ max_symbols \in 1..MaxCfgSymbols
    /\ sym_pc = "idle"
    /\ exch_info = <<>>
    /\ exch_tickers = <<>>
    /\ sym_fetch = <<>>
    /\ sym_result = <<>>
    /\ LimIdle /\ RtIdle /\ HistIdle /\ MgIdle /\ VdIdle /\ StIdle

NextSymbols == GetTradeableSymbols \/ NextRun

SpecSymbols == InitSymbols /\ [][NextSymbols]_vars

-----------------------------------------------------------------------------
(* Historical data for one symbol over several days and several runs *)
NoHist == [symbol |-> "", path |-> "none", raised |-> FALSE, result |-> Absent,
           prev |-> NoFile, calls |-> <<>>]

InitHist ==
    /\ today = 1
    /\ cache = <<>>
    /\ disk = [s \in HistSymbols |-> NoFile]
    /\ backups = {}
    /\ hist = NoHist
    /\ LimIdle /\ RtIdle /\ SymIdle /\ MgIdle /\ VdIdle /\ StIdle

HistoricalData ==
    /\ \E symbol \in HistSymbols : GetHistoricalData(symbol)
    /\ UNCHANGED <<limVars, rtVars, symVars, mgVars, vdVars, stVars>>

AdvanceDay ==
    /\ today < MaxDay
    /\ today' = today + 1
    /\ UNCHANGED <<cache, disk, backups, hist, limVars, rtVars, symVars, mgVars, vdVars, stVars>>

\* the process ends; the next scheduled run starts with an empty memory cache
Restart ==
    /\ cache # <<>>
    /\ cache' = <<>>
    /\ hist' = NoHist
    /\ UNCHANGED <<today, disk, backups, limVars, rtVars, symVars, mgVars, vdVars, stVars>>

NextHist == HistoricalData \/ AdvanceDay \/ Restart

SpecHist == InitHist /\ [][NextHist]_vars

-----------------------------------------------------------------------------
(* The merge alone, over every pair of a cached series and fetched rows *)
InitMerge ==
    /\ mg_df \in Ascending(MaxDay, 1..MaxValue) \ {<<>>}
    /\ mg_new \in Ascending(MaxDay, 1..MaxValue) \ {<<>>}
    /\ mg_out = Absent
    /\ LimIdle /\ RtIdle /\ SymIdle /\ HistIdle /\ VdIdle /\ StIdle

MergeFetched ==
    /\ ~mg_out.present
    /\ mg_out' = Series(Merge(mg_df, mg_new))
    /\ UNCHANGED <<mg_df, mg_new, limVars, rtVars, symVars, histVars, vdVars, stVars>>

NextMerge == MergeFetched

SpecMerge == InitMerge /\ [][NextMerge]_vars

-----------------------------------------------------------------------------
(* validate_data alone, over every frame of the family above and None *)
InitValidate ==
    /\ vd_df \in Frames \cup {NoFrame}
    /\ vd_out = NoValidation
    /\ LimIdle /\ RtIdle /\ SymIdle /\ HistIdle /\ MgIdle /\ StIdle

ValidateData ==
    /\ ~vd_out.called
    /\ vd_out' = [called |-> TRUE, raised |-> FALSE, value |-> ValidateBody(vd_df)]
    /\ UNCHANGED <<vd_df, limVars, rtVars, symVars, histVars, mgVars, stVars>>

NextValidate == ValidateData

SpecValidate == InitValidate /\ [][NextValidate]_vars

-----------------------------------------------------------------------------
(* DataStorage on a fresh cache directory, with time passing between calls *)
InitStorage ==
    /\ st_now = 0
    /\ st_attrs \in AttrsModes
    /\ st_posix \in BOOLEAN
    /\ st_file = [s \in StSymbols |-> NoArtifact]
    /\ st_backups = <<>>
    /\ st_written = <<>>
    /\ st_fails = 0
    /\ st_ncalls = 0
    /\ st_last = NoStorageCall
    /\ LimIdle /\ RtIdle /\ SymIdle /\ HistIdle /\ MgIdle /\ VdIdle

StoreCall ==
    /\ \E symbol \in StSymbols : \E df \in 1..MaxValue : \E fault \in StoreFaults :
           Store(symbol, df, fault)
    /\ UNCHANGED <<limVars, rtVars, symVars, histVars, mgVars, vdVars>>

LoadAgain ==
    /\ \E symbol \in StSymbols : \E read_fails \in BOOLEAN : LoadCall(symbol, read_fails)
    /\ UNCHANGED <<limVars, rtVars, symVars, histVars, mgVars, vdVars>>

NeedsUpdateCall ==
    /\ \E symbol \in StSymbols : \E read_fails \in BOOLEAN : NeedsUpdate(symbol, read_fails)
    /\ UNCHANGED <<limVars, rtVars, symVars, histVars, mgVars, vdVars>>

StTimePasses ==
    /\ \E t \in StTimes : StTick(t)
    /\ UNCHANGED <<limVars, rtVars, symVars, histVars, mgVars, vdVars>>

NextStorage == StoreCall \/ LoadAgain \/ NeedsUpdateCall \/ StTimePasses

SpecStorage == InitStorage /\ [][NextStorage]_vars

-----------------------------------------------------------------------------
(* Claims about the rate limiter and the retry wrapper *)

\* C1: no more than N wrapped calls are started within any trailing 60-second
\* window: of any N+1 consecutive calls the last starts at least 60 seconds
\* after the first.
C1_AtMostNCallsPerWindow ==
    Len(performed) = calls_per_minute + 1 =>
        performed[Len(performed)] - performed[1] >= Window

\* C2: every attempt of _api_call passes through the limiter: a call that
\* makes k attempts is checked against the limiter k times and adds k entries
\* to the call-time record.
C2_EveryAttemptPassesLimiter ==
    last.attempts >= 1 =>
        /\ last.checks = last.attempts
        /\ last.recorded = last.attempts

\* C4: the retry wrapper makes at most 3 attempts, returns the value of the
\* first successful attempt without further attempts, sleeps 2^attempt seconds
\* after each failed attempt but the last, and re-raises the failure of the
\* final attempt when all 3 fail.
C4_RetryContract ==
    rt_result # NoResult =>
        LET o   == rt_outcomes
            r   == rt_result
            oks == {i \in 1..3 : o[i].ok}
        IN  /\ r.attempts \in 1..3
            /\ oks # {} =>
                 /\ ~r.raised
                 /\ r.attempts \in oks
                 /\ \A i \in oks : r.attempts <= i
                 /\ r.v = o[r.attempts].v
            /\ oks = {} =>
                 /\ r.raised
                 /\ r.attempts = 3
                 /\ r.v = o[3].v
            /\ Len(r.sleeps) = r.attempts - 1
            /\ \A j \in 1..Len(r.sleeps) : r.sleeps[j] = 2 ^ (j - 1)

\* two failures, then the value of the third attempt, after sleeps of 1 s and 2 s
C4_Witness ==
    /\ rt_result # NoResult
    /\ ~rt_outcomes[1].ok /\ ~rt_outcomes[2].ok /\ rt_outcomes[3].ok
    /\ rt_outcomes[2].v # rt_outcomes[3].v
    /\ ~rt_result.raised
    /\ rt_result.sleeps = <<1, 2>>

-----------------------------------------------------------------------------
(* Claims about symbol discovery *)

SeqRange(s) == {s[i] : i \in DOMAIN s}

\* the symbols the contract selects, stated on the snapshots served
Eligible ==
    {e.symbol : e \in
        {e \in SeqRange(exch_info) :
            /\ e.status = "TRADING"
            /\ e.quoteAsset = QUOTE_CURRENCY
            /\ \E t \in SeqRange(exch_tickers) :
                 /\ t.symbol = e.symbol
                 /\ Float(t.quoteVolume).ok
                 /\ Float(t.quoteVolume).x >= MIN_VOLUME * 100}}

\* every quote volume served is a number
WellFormedTickers == \A t \in SeqRange(exch_tickers) : Float(t.quoteVolume).ok

\* a symbol that reaches the volume test has a quote volume that is no number
Unprocessable ==
    \E e \in SeqRange(exch_info) : \E t \in SeqRange(exch_tickers) :
        /\ e.status = "TRADING" /\ e.quoteAsset = "USDT"
        /\ t.symbol = e.symbol
        /\ ~Float(t.quoteVolume).ok

FetchesSucceeded ==
    sym_pc = "done" /\ ~sym_fetch.info_failed /\ ~sym_fetch.tick_failed

\* C9: for every metadata and ticker snapshot (quote volumes being numbers),
\* get_tradeable_symbols returns exactly the lexicographically sorted list,
\* truncated to the configured maximum, of the trading symbols of the
\* configured quote currency that have a ticker with quote volume >= the
\* minimum.
C9_SymbolsFilteredSortedTruncated ==
    (FetchesSucceeded /\ WellFormedTickers) =>
        LET r == sym_result.list IN
        /\ ~sym_result.raised
        /\ Len(r) = Min(Cardinality(Eligible), max_symbols)
        /\ \A i \in DOMAIN r : r[i] \in Eligible
        /\ \A i, j \in DOMAIN r : i < j => StrLess(r[i], r[j])
        /\ \A x \in Eligible \ SeqRange(r) : \A i \in DOMAIN r : StrLess(r[i], x)

\* two eligible symbols served in descending order, a third one quoted in BTC
\* with enough volume, and a maximum of one: the smaller eligible one is returned
C9_Witness ==
    /\ FetchesSucceeded /\ WellFormedTickers
    /\ max_symbols = 1
    /\ Cardinality(Eligible) = 2
    /\ Len(exch_info) = 3
    /\ exch_info[1].symbol = <<2>> /\ <<2>> \in Eligible
    /\ \E e \in SeqRange(exch_info) : \E t \in SeqRange(exch_tickers) :
         /\ e.quoteAsset = "BTC" /\ e.status = "TRADING"
         /\ t.symbol = e.symbol /\ t.quoteVolume = "1000000.00"
    /\ Len(sym_result.list) = 1
    /\ StrLess(sym_result.list[1], <<2>>)

\* C10: if the metadata fetch or the ticker fetch still fails after its
\* retries, or the snapshot cannot be processed, get_tradeable_symbols returns
\* the empty list and does not raise.
C10_FetchFailureGivesEmptyList ==
    (sym_pc = "done" /\ (sym_fetch.info_failed \/ sym_fetch.tick_failed \/ Unprocessable)) =>
        /\ ~sym_result.raised
        /\ sym_result.list = <<>>

\* the metadata arrived with three symbols, the ticker fetch failed three times
C10_Witness ==
    /\ sym_pc = "done"
    /\ sym_fetch.tick_failed
    /\ Len(exch_info) = 3
    /\ \A i \in DOMAIN exch_info :
         exch_info[i].status = "TRADING" /\ exch_info[i].quoteAsset = "USDT"
    /\ sym_result = [raised |-> FALSE, list |-> <<>>]

-----------------------------------------------------------------------------
(* Claims about historical data *)

Timestamps(rows) == {rows[i].ts : i \in DOMAIN rows}

\* C3: every outbound exchange call of DataManager is rate-limited and
\* retried; a historical-candle fetch that fails once and would succeed on
\* the next attempt yields data.
C3_KlineCallsLimitedAndRetried ==
    /\ \A i \in DOMAIN hist.calls :
         /\ hist.calls[i].limited
         /\ hist.calls[i].failed_first => hist.calls[i].attempts > 1
    /\ \A i \in DOMAIN hist.calls :
         (/\ i = Len(hist.calls)
          /\ hist.calls[i].failed_first
          /\ hist.calls[i].rows # <<>>
          /\ ~hist.raised)
            => hist.result.present

\* C5: a series merged from a cached series and an incremental fetch has
\* strictly increasing, unique timestamps, holds every timestamp of both
\* exactly once, and for a timestamp present in both keeps the fetched row.
C5_MergeSortedUniqueNewWins ==
    mg_out.present =>
        LET out == mg_out.rows IN
        /\ \A i, j \in DOMAIN out : i < j => out[i].ts < out[j].ts
        /\ Timestamps(out) = Timestamps(mg_df) \cup Timestamps(mg_new)
        /\ \A i \in DOMAIN out : \A j \in DOMAIN mg_new :
             out[i].ts = mg_new[j].ts => out[i] = mg_new[j]

\* a fetched row replaces a cached row of the same day that differs from it,
\* and another fetched row is older than a cached one
C5_Witness ==
    /\ mg_out.present
    /\ \E i \in DOMAIN mg_df : \E j \in DOMAIN mg_new :
         mg_df[i].ts = mg_new[j].ts /\ mg_df[i].v # mg_new[j].v
    /\ \E i \in DOMAIN mg_df : \E j \in DOMAIN mg_new : mg_new[j].ts < mg_df[i].ts
    /\ \E i \in DOMAIN mg_df : mg_df[i].ts \notin Timestamps(mg_new)
    /\ Len(mg_out.rows) = 3

\* C6: when get_historical_data updates a symbol whose cache file exists,
\* the previous file is moved to the backup location before the new one is
\* written, so the prior contents exist in the backup directory afterwards.
C6_PreviousFileBackedUp ==
    (/\ hist.path \in {"merged", "full"}
     /\ hist.prev.kind = "ok"
     /\ hist.result.present
     /\ ~hist.raised)
        => [symbol |-> hist.symbol, rows |-> hist.prev.rows] \in backups

\* the incremental fetch of the last call returned no rows
IncrementalEmpty ==
    /\ hist.calls # <<>>
    /\ hist.calls[1].kind = "inc"
    /\ ~hist.calls[1].failed_first
    /\ hist.calls[1].rows = <<>>

\* the full fetch of the last call, made without a cache file, returned no rows
FullEmptyNoCache ==
    /\ hist.prev.kind = "none"
    /\ Len(hist.calls) = 1
    /\ hist.calls[1].kind = "full"
    /\ ~hist.calls[1].failed_first
    /\ hist.calls[1].rows = <<>>

\* C7: with a stale cache and an incremental fetch that returns no rows,
\* get_historical_data returns the loaded series unmodified, whatever another
\* fetch would return; with no cache and an empty full fetch it returns
\* absent; it fails in neither case.
C7_EmptyFetchKeepsCachedSeries ==
    /\ IncrementalEmpty =>
         /\ ~hist.raised
         /\ hist.result = Series(hist.prev.rows)
    /\ FullEmptyNoCache =>
         /\ ~hist.raised
         /\ hist.result = Absent

\* C8: get_historical_data never raises to its caller, whatever the exchange
\* and the disk do.
C8_NeverRaises == ~hist.raised

-----------------------------------------------------------------------------
(* Further claims about the rate limiter *)

\* the step is one call of the wrapped function
IsCall == ncalls' = ncalls + 1

\* the recorded timestamps that are at most / less than `age` seconds old when
\* a call arrives
NotOlderThan(age) == {i \in DOMAIN call_times : clock - call_times[i] <= age}
YoungerThan(age)  == {i \in DOMAIN call_times : clock - call_times[i] < age}

\* N+1 calls in rapid succession: with N timestamps on record, none older than
\* 60 s, the call is not performed before the oldest of them is 60 s old
RapidCallsDelayed ==
    Cardinality(NotOlderThan(60)) >= calls_per_minute =>
        \E i \in NotOlderThan(60) :
            /\ \A j \in NotOlderThan(60) : call_times[i] <= call_times[j]
            /\ last'.start - call_times[i] >= 60

\* a call that arrives more than 60 s after every recorded one is not delayed
SpacedCallsNotDelayed ==
    NotOlderThan(60) = {} => last'.wait = 0

C18_DelayedCallRecordedWhenPerformed ==
    /\ last.wait >= 0
    /\ last.start = last.now + last.wait
    /\ (last.recorded = 1 /\ last.wait > 0) =>
           call_times[Len(call_times)] = last.start

\* C20: when the wrapped call raises, the wrapper raises too and records no
\* timestamp for it: the call-time record afterwards is the record before the
\* call without its expired entries, so a failed call does not count toward
\* the ceiling of later calls.
C20_RaisingCallNotRecorded ==
    [][(IsCall /\ last'.raised) =>
         /\ Len(call_times') <= Len(call_times)
         /\ \E k \in 0..Len(call_times) :
              call_times' = SubSeq(call_times, k + 1, Len(call_times))
         /\ \A i \in DOMAIN call_times' : clock - call_times'[i] <= 60]_vars

\* with N = 1, a call recorded at t = 0 and a later call that waited its turn,
\* failed three times and left the record as it was
C20_Witness ==
    /\ calls_per_minute = 1
    /\ ncalls = 2
    /\ last.raised
    /\ last.attempts = 3
    /\ last.wait > 0
    /\ call_times = <<0>>

-----------------------------------------------------------------------------
(* Further claims about historical data *)

\* the step is one call of get_historical_data
IsHistCall == hist' # NoHist /\ today' = today

\* the step belongs to a run of the program (it is not the start of a new process)
InRun == hist' # NoHist

\* C15: a full-history fetch is issued only when no cache file exists for the
\* symbol: with a cache file, a call fetches at most the gap after the last
\* cached timestamp, and the file is never replaced by the result of a
\* full-history fetch.
C15_FullFetchOnlyWithoutCacheFile ==
    hist.prev.kind # "none" =>
        /\ \A i \in DOMAIN hist.calls : hist.calls[i].kind # "full"
        /\ hist.path # "full"

\* C16: once get_historical_data has returned a series for a symbol, a later
\* call for it in the same run returns the same series with no disk read, no
\* disk write and no exchange call; within a run no entry of the memory cache
\* is removed or replaced, and an absent result is never put into it.
C16_MemoryCacheHit ==
    [][/\ (/\ IsHistCall
           /\ hist.symbol = hist'.symbol
           /\ hist.result.present
           /\ ~hist.raised)
          => /\ ~hist'.raised
             /\ hist'.result = hist.result
             /\ hist'.path = "memory"
             /\ hist'.calls = <<>>
             /\ disk' = disk
       /\ InRun =>
            \A k \in DOMAIN cache : k \in DOMAIN cache' /\ cache'[k] = cache[k]
       /\ IsHistCall =>
            /\ ~hist'.result.present => DOMAIN cache' = DOMAIN cache
            /\ \A k \in DOMAIN cache' \ DOMAIN cache :
                 /\ k = hist'.symbol
                 /\ hist'.result = Series(cache'[k])
                 /\ cache'[k] # <<>>]_vars

\* a series fetched on one day is served from memory on a later day, when the
\* file on disk has gone stale
C16_Witness ==
    /\ hist.path = "memory"
    /\ hist.result.present
    /\ hist.prev.kind = "ok"
    /\ today - hist.result.rows[Len(hist.result.rows)].ts >= 1

\* the cache file of the symbol exists, is readable, and its last timestamp is
\* less than one day before now
FreshOnDisk(symbol) ==
    /\ disk[symbol].kind = "ok"
    /\ disk[symbol].rows # <<>>
    /\ today - disk[symbol].rows[Len(disk[symbol].rows)].ts < 1

\* C17: when the symbol is not in memory and its cache file exists with a last
\* timestamp within 1 day of now, get_historical_data returns the loaded
\* series, puts it into the memory cache, makes no exchange call and leaves
\* the file unchanged.
C17_FreshDiskCacheReturned ==
    [][\A s \in HistSymbols :
         (/\ IsHistCall
          /\ hist'.symbol = s
          /\ s \notin DOMAIN cache
          /\ FreshOnDisk(s))
            => /\ ~hist'.raised
               /\ hist'.result = Series(disk[s].rows)
               /\ s \in DOMAIN cache'
               /\ cache'[s] = disk[s].rows
               /\ hist'.calls = <<>>
               /\ disk' = disk]_vars

\* a new process found a file written earlier the same day and served it
C17_Witness ==
    /\ hist.path = "fresh"
    /\ hist.result = Series(hist.prev.rows)
    /\ hist.symbol \in DOMAIN cache
    /\ cache[hist.symbol] = hist.prev.rows
    /\ disk[hist.symbol] = hist.prev
    /\ hist.calls = <<>>

-----------------------------------------------------------------------------
(* Claims about validation *)

\* the frame has a null cell somewhere
SomeNullCell == \E c \in Columns : \E r \in 1..vd_df.nrows : r \in vd_df.nulls[c]

\* C13: validate_data is true if and only if the series is present, has at
\* least 360 rows and has no null cell; 360 rows without nulls give true, 359
\* rows or any null cell give false, an absent series gives false, and it
\* never raises.
C13_ValidateData ==
    vd_out.called =>
        /\ ~vd_out.raised
        /\ vd_out.value <=> (vd_df.present /\ vd_df.nrows >= 360 /\ ~SomeNullCell)
        /\ (vd_df.present /\ vd_df.nrows = 360 /\ ~SomeNullCell) => vd_out.value
        /\ (vd_df.present /\ vd_df.nrows = 359) => ~vd_out.value
        /\ SomeNullCell => ~vd_out.value
        /\ ~vd_df.present => ~vd_out.value

\* a frame of exactly 360 rows without a null cell was accepted
C13_Witness ==
    /\ vd_out.called
    /\ vd_df.present
    /\ vd_df.nrows = 360
    /\ ~SomeNullCell
    /\ vd_out.value

-----------------------------------------------------------------------------
(* Claims about storage *)

\* C11: store never silently overwrites: after k successful store calls on a
\* symbol (and no failed one), made at any spacing in time, the backup
\* directory holds k-1 files, every file written before the current one is
\* among them, and the current file is the one written last.
C11_BackupsNeverReplaced ==
    \A s \in StSymbols :
        (st_fails = 0 /\ st_written # <<>>) =>
            LET k == Len(st_written) IN
            /\ st_file[s] = st_written[k]
            /\ Cardinality(DOMAIN st_backups) = k - 1
            /\ \A i \in 1..(k - 1) :
                 \E n \in DOMAIN st_backups : n[1] = s /\ st_backups[n] = st_written[i]

\* the step is a call of needs_update whose read of the file did not fail
IsNeedsUpdate ==
    /\ st_ncalls' = st_ncalls + 1
    /\ st_last'.op = "needs_update"
    /\ ~st_last'.read_failed

\* C12: needs_update(symbol) is true exactly when the symbol has no file, or
\* the file carries no write timestamp, or its write timestamp is more than
\* one day old; it is true before any store and false directly after a
\* successful store of the symbol.
C12_NeedsUpdate ==
    [][\A s \in StSymbols :
         (IsNeedsUpdate /\ st_last'.symbol = s) =>
            /\ st_last'.value <=>
                 \/ st_file[s].kind = "none"
                 \/ st_file[s].timestamp = NoTimestamp
                 \/ st_now - st_file[s].timestamp > 86400
            /\ (st_written = <<>> /\ st_fails = 0) => st_last'.value
            /\ (/\ st_last.op = "store" /\ st_last.symbol = s
                /\ st_last.ok /\ st_last.at = st_now) => ~st_last'.value]_vars

\* C19: a store call that returns false leaves the file stored before it in
\* place: load afterwards still returns the frame that was stored before.
C19_FailedStoreKeepsArtifact ==
    (/\ st_last.op = "store"
     /\ ~st_last.ok
     /\ st_last.before.kind = "file")
        => /\ st_file[st_last.symbol] = st_last.before
           /\ Load(st_file[st_last.symbol], FALSE).present
           /\ Load(st_file[st_last.symbol], FALSE).df = st_last.before.df

=============================================================================
